---- MODULE Spec2Model ----
(***************************************************************************)
(* Model of compress_docx_images.py: a .docx package is extracted into a   *)
(* scratch directory, every raster image under word/media is re-encoded as *)
(* JPEG (and renamed to <base>.jpg), the two markup files are rewritten by *)
(* literal substring replacement, and the tree is zipped again.            *)
(*                                                                         *)
(* File names and markup text are sequences of symbols.  A symbol is a     *)
(* stem ("a", "e"), an extension with its dot (".png") or a markup         *)
(* delimiter ("<", ">").                                                   *)
(***************************************************************************)
EXTENDS Integers, Sequences, FiniteSets, TLC

VARIABLES
    input,                  \* the input package (never modified)
    temp_exists,            \* the TemporaryDirectory exists on disk
    tree,                   \* the extracted tree under extract_dir
    output,                 \* the file at output_docx
    pc,                     \* position in compress_docx_images
    listing,                \* entries of os.listdir(media_dir) not yet visited
    filename,               \* loop variable
    original_size,          \* local of the loop body
    img,                    \* the opened image
    total_original_size,
    total_compressed_size,
    outcome,                \* per visited image: "ok" or the step that raised
    events,                 \* file-system and imaging operations performed, in order
    width, height,          \* img.size of the image whose resize is examined
    max_dimension,
    new_size,               \* the size handed to img.resize
    rpc                     \* position in the resize block

vars == <<input, temp_exists, tree, output, pc, listing, filename, original_size,
          img, total_original_size, total_compressed_size, outcome, events,
          width, height, max_dimension, new_size, rpc>>

mainVars == <<input, temp_exists, tree, output, pc, listing, filename, original_size,
              img, total_original_size, total_compressed_size, outcome, events>>

resizeVars == <<width, height, max_dimension, new_size, rpc>>

-----------------------------------------------------------------------------
(* Bounds *)

\* largest number of entries in word/media of an input package
MaxMedia == 2

\* largest width, height and max_dimension examined by the resize model
MaxPix == 22

-----------------------------------------------------------------------------
(* File names *)

\* the extension allow-list of the media scanner
ImageExts == {".png", ".jpg", ".jpeg", ".gif", ".bmp", ".tiff"}

\* str.lower on one symbol
Lower(sym) ==
    CASE sym = ".JPG" -> ".jpg"
      [] sym = ".PNG" -> ".png"
      [] OTHER -> sym

\* filename.lower().endswith(('.png', '.jpg', ...))
IsImage(name) == Lower(name[Len(name)]) \in ImageExts

\* os.path.splitext(filename)[0]: everything before the last extension; a
\* name that is only a leading-dot symbol has no extension
SplitextBase(name) ==
    IF Len(name) > 1 THEN SubSeq(name, 1, Len(name) - 1) ELSE name

\* new_filename = base_name + '.jpg'
NewFilename(name) == SplitextBase(name) \o <<".jpg">>

\* the media entries input packages are built from, in a fixed order
NameSeq ==
    << <<"a", ".png">>, <<"a", ".jpg">>, <<"a", ".gif">>,
       <<"a", ".gif", ".png">>, <<"a", ".JPG">>, <<"e", ".emf">> >>

MediaNames == {NameSeq[i] : i \in 1..Len(NameSeq)}

NameIndex(name) == CHOOSE i \in 1..Len(NameSeq) : NameSeq[i] = name

\* files of the package outside word/media and besides the two markup files
OtherPaths == {"[Content_Types].xml", "word/styles.xml"}

-----------------------------------------------------------------------------
(* File contents *)

\* the bytes of a media file: which picture, in which encoding
OrigContent(name) == [pic |-> name, fmt |-> "orig"]
JpegContent(pic)  == [pic |-> pic, fmt |-> "jpeg"]

\* os.path.getsize
GetSize(c) ==
    CASE c.fmt = "orig" -> 100 * NameIndex(c.pic)
      [] c.fmt = "jpeg" -> 10 * NameIndex(c.pic)

RECURSIVE Replace(_, _, _)
\* str.replace(old, new): every non-overlapping occurrence, left to right
Replace(s, old, new) ==
    IF Len(s) < Len(old) THEN s
    ELSE IF SubSeq(s, 1, Len(old)) = old
         THEN new \o Replace(SubSeq(s, Len(old) + 1, Len(s)), old, new)
         ELSE <<s[1]>> \o Replace(Tail(s), old, new)

\* sub in s
Occurs(s, sub) ==
    \E i \in 1..(Len(s) - Len(sub) + 1) : SubSeq(s, i, i + Len(sub) - 1) = sub

RECURSIVE RefsFrom(_, _)
\* markup text naming every media entry of S: "<name><name>..."
RefsFrom(i, S) ==
    IF i > Len(NameSeq) THEN <<>>
    ELSE (IF NameSeq[i] \in S THEN <<"<">> \o NameSeq[i] \o <<">">> ELSE <<>>)
         \o RefsFrom(i + 1, S)

NoFile == [exists |-> FALSE, text |-> <<>>]
TextFile(t) == [exists |-> TRUE, text |-> t]

\* the markup files an input package with media entries S may carry
MarkupChoices(S) == {NoFile, TextFile(<<>>), TextFile(RefsFrom(1, S))}

-----------------------------------------------------------------------------
(* Packages and trees *)

EmptyTree == [hasMedia |-> FALSE, media |-> <<>>, doc |-> NoFile, rels |-> NoFile,
              other |-> {}]

\* the trees an input package with media entries S may hold; the media
\* folder exists whenever it has entries, and may exist empty
TreesWith(S) ==
    { [hasMedia |-> hm, media |-> [n \in S |-> OrigContent(n)], doc |-> d,
       rels |-> r, other |-> OtherPaths] :
        hm \in (IF S = {} THEN BOOLEAN ELSE {TRUE}),
        d \in MarkupChoices(S),
        r \in {NoFile, TextFile(RefsFrom(1, S))} }

InputTrees ==
    UNION { TreesWith(S) : S \in {T \in SUBSET MediaNames : Cardinality(T) <= MaxMedia} }

NoPackage == [bytes |-> "none", files |-> EmptyTree]

\* zip_ref.extractall(extract_dir)
ExtractAll(pkg) == pkg.files

\* shutil.copy2(input_docx, output_docx)
CopyFileRezipped(pkg) == [bytes |-> "rezipped", files |-> pkg.files]
CopyFile(pkg) == pkg

\* the repackager: os.walk over the tree, one archive entry per file
ZipWriteMediaOnly(t) ==
    [bytes |-> "rezipped",
     files |-> [hasMedia |-> t.hasMedia, media |-> t.media, doc |-> t.doc,
                rels |-> t.rels, other |-> {}]]
ZipWrite(t) == [bytes |-> "rezipped", files |-> t]

\* os.remove(filepath)
RemoveMedia(t, name) ==
    [t EXCEPT !.media = [n \in (DOMAIN t.media) \ {name} |-> t.media[n]]]

\* the file at word/media/<name> after a write of content c
WriteMedia(t, name, c) ==
    [t EXCEPT !.media = [n \in (DOMAIN t.media) \cup {name} |->
                            IF n = name THEN c ELSE t.media[n]]]

\* one markup file of update_image_references: skipped when absent
RewriteFile(f, old_name, new_name) ==
    IF f.exists THEN TextFile(Replace(f.text, old_name, new_name)) ELSE f

\* update_image_references, stopped by a fault after k of its two files
\* (k = 2: it returns)
UpdateImageReferences(t, old_name, new_name, k) ==
    [t EXCEPT !.doc  = IF k >= 1 THEN RewriteFile(t.doc, old_name, new_name) ELSE t.doc,
              !.rels = IF k >= 2 THEN RewriteFile(t.rels, old_name, new_name) ELSE t.rels]

\* the with-block of TemporaryDirectory: whether the directory still exists
\* once the block is left by way of path
ExitTempDirLeakOnEarlyReturn(path) == path = "early"
ExitTempDir(path) == FALSE

\* where the loop body goes after the transform: lines 80-86
AfterTransformAlwaysSave(name) == "save"
AfterTransform(name) == IF NewFilename(name) # name THEN "remove" ELSE "save"

NoImage == [pic |-> <<>>, fmt |-> "none"]

Event(op, name, to) == [op |-> op, name |-> name, to |-> to]

-----------------------------------------------------------------------------
(* compress_docx_images *)

Init ==
    /\ input \in {[bytes |-> "orig", files |-> t] : t \in InputTrees}
    /\ temp_exists = FALSE
    /\ tree = EmptyTree
    /\ output = NoPackage
    /\ pc = "start"
    /\ listing = {}
    /\ filename = <<>>
    /\ original_size = 0
    /\ img = NoImage
    /\ total_original_size = 0
    /\ total_compressed_size = 0
    /\ outcome = <<>>
    /\ events = <<>>
    /\ width = 0 /\ height = 0 /\ max_dimension = 0
    /\ new_size = <<0, 0>>
    /\ rpc = "idle"

\* line 23: the scratch directory is created
EnterTempDir ==
    /\ pc = "start"
    /\ temp_exists' = TRUE
    /\ pc' = "extract"
    /\ UNCHANGED <<input, tree, output, listing, filename, original_size, img,
                   total_original_size, total_compressed_size, outcome, events>>
    /\ UNCHANGED resizeVars

\* lines 28-29
Extract ==
    /\ pc = "extract"
    /\ tree' = ExtractAll(input)
    /\ pc' = "check"
    /\ UNCHANGED <<input, temp_exists, output, listing, filename, original_size, img,
                   total_original_size, total_compressed_size, outcome, events>>
    /\ UNCHANGED resizeVars

\* lines 28-29 raise (not a zip, unreadable): the exception leaves the with-block
ExtractRaises ==
    /\ pc = "extract"
    /\ pc' = "raised"
    /\ temp_exists' = ExitTempDir("raise")
    /\ UNCHANGED <<input, tree, output, listing, filename, original_size, img,
                   total_original_size, total_compressed_size, outcome, events>>
    /\ UNCHANGED resizeVars

\* lines 34-37: no media folder, copy the input through and return
CopyThrough ==
    /\ pc = "check"
    /\ ~tree.hasMedia
    /\ output' = CopyFile(input)
    /\ events' = Append(events, Event("copy", <<>>, <<>>))
    /\ pc' = "done"
    /\ temp_exists' = ExitTempDir("early")
    /\ UNCHANGED <<input, tree, listing, filename, original_size, img,
                   total_original_size, total_compressed_size, outcome>>
    /\ UNCHANGED resizeVars

\* line 36 raises (output path not writable)
CopyThroughRaises ==
    /\ pc = "check"
    /\ ~tree.hasMedia
    /\ pc' = "raised"
    /\ temp_exists' = ExitTempDir("raise")
    /\ UNCHANGED <<input, tree, output, listing, filename, original_size, img,
                   total_original_size, total_compressed_size, outcome, events>>
    /\ UNCHANGED resizeVars

\* lines 40-43: the totals start at 0 and the folder is listed once
StartLoop ==
    /\ pc = "check"
    /\ tree.hasMedia
    /\ total_original_size' = 0
    /\ total_compressed_size' = 0
    /\ listing' = DOMAIN tree.media
    /\ pc' = "loop"
    /\ UNCHANGED <<input, temp_exists, tree, output, filename, original_size, img,
                   outcome, events>>
    /\ UNCHANGED resizeVars

\* lines 43-48: the next entry, in whatever order listdir gave, is not an image
SkipEntry ==
    /\ pc = "loop"
    /\ \E f \in listing :
        /\ ~IsImage(f)
        /\ listing' = listing \ {f}
        /\ filename' = f
    /\ UNCHANGED <<input, temp_exists, tree, output, pc, original_size, img,
                   total_original_size, total_compressed_size, outcome, events>>
    /\ UNCHANGED resizeVars

\* lines 43-51: the next entry is an image; its size enters the first total
AcceptEntry ==
    /\ pc = "loop"
    /\ \E f \in listing :
        /\ IsImage(f)
        /\ listing' = listing \ {f}
        /\ filename' = f
        /\ original_size' = GetSize(tree.media[f])
        /\ total_original_size' = total_original_size + GetSize(tree.media[f])
    /\ pc' = "open"
    /\ UNCHANGED <<input, temp_exists, tree, output, img, total_compressed_size,
                   outcome, events>>
    /\ UNCHANGED resizeVars

\* lines 94-96: the handler of the loop body, entered from the step that raised
Except(step) ==
    /\ total_compressed_size' = total_compressed_size + original_size
    /\ outcome' = [n \in (DOMAIN outcome) \cup {filename} |->
                      IF n = filename THEN step ELSE outcome[n]]
    /\ events' = Append(events, Event("error", filename, <<>>))
    /\ img' = NoImage
    /\ pc' = "loop"

\* line 55
Open ==
    /\ pc = "open"
    /\ img' = tree.media[filename]
    /\ events' = Append(events, Event("open", filename, <<>>))
    /\ pc' = "transform"
    /\ UNCHANGED <<input, temp_exists, tree, output, listing, filename, original_size,
                   total_original_size, total_compressed_size, outcome>>
    /\ UNCHANGED resizeVars

\* line 55 raises (not an image, unreadable)
OpenRaises ==
    /\ pc = "open"
    /\ Except("decode")
    /\ UNCHANGED <<input, temp_exists, tree, output, listing, filename, original_size,
                   total_original_size>>
    /\ UNCHANGED resizeVars

\* lines 57-72: colour flattening and resize
Transform ==
    /\ pc = "transform"
    /\ events' = Append(events, Event("transform", filename, <<>>))
    /\ pc' = AfterTransform(filename)
    /\ UNCHANGED <<input, temp_exists, tree, output, listing, filename, original_size,
                   img, total_original_size, total_compressed_size, outcome>>
    /\ UNCHANGED resizeVars

\* lines 57-72 raise (pixel data cannot be decoded, a dimension scaled to 0)
TransformRaises ==
    /\ pc = "transform"
    /\ Except("transform")
    /\ UNCHANGED <<input, temp_exists, tree, output, listing, filename, original_size,
                   total_original_size>>
    /\ UNCHANGED resizeVars

\* line 82
Remove ==
    /\ pc = "remove"
    /\ tree' = RemoveMedia(tree, filename)
    /\ events' = Append(events, Event("remove", filename, <<>>))
    /\ pc' = "rewrite"
    /\ UNCHANGED <<input, temp_exists, output, listing, filename, original_size, img,
                   total_original_size, total_compressed_size, outcome>>
    /\ UNCHANGED resizeVars

\* line 84
Rewrite ==
    /\ pc = "rewrite"
    /\ tree' = UpdateImageReferences(tree, filename, NewFilename(filename), 2)
    /\ events' = Append(events, Event("rewrite", filename, NewFilename(filename)))
    /\ pc' = "save"
    /\ UNCHANGED <<input, temp_exists, output, listing, filename, original_size, img,
                   total_original_size, total_compressed_size, outcome>>
    /\ UNCHANGED resizeVars

\* line 84 raises while reading or writing its (k+1)-th markup file (the
\* text is not UTF-8, the file is not writable)
RewriteRaises ==
    /\ pc = "rewrite"
    /\ \E k \in {0, 1} :
        /\ IF k = 0 THEN tree.doc.exists ELSE tree.rels.exists
        /\ tree' = UpdateImageReferences(tree, filename, NewFilename(filename), k)
    /\ Except("rewrite")
    /\ UNCHANGED <<input, temp_exists, output, listing, filename, original_size,
                   total_original_size>>
    /\ UNCHANGED resizeVars

\* lines 86-92: the JPEG is written and its size enters the second total
Save ==
    /\ pc = "save"
    /\ tree' = WriteMedia(tree, NewFilename(filename), JpegContent(img.pic))
    /\ total_compressed_size' = total_compressed_size + GetSize(JpegContent(img.pic))
    /\ outcome' = [n \in (DOMAIN outcome) \cup {filename} |->
                      IF n = filename THEN "ok" ELSE outcome[n]]
    /\ events' = Append(events, Event("save", filename, NewFilename(filename)))
    /\ img' = NoImage
    /\ pc' = "loop"
    /\ UNCHANGED <<input, temp_exists, output, listing, filename, original_size,
                   total_original_size>>
    /\ UNCHANGED resizeVars

\* line 86 raises (the pixel data, loaded lazily, cannot be decoded; the
\* encoder rejects the image); the target file is taken to be left as it was
SaveRaises ==
    /\ pc = "save"
    /\ Except("encode")
    /\ UNCHANGED <<input, temp_exists, tree, output, listing, filename, original_size,
                   total_original_size>>
    /\ UNCHANGED resizeVars

\* line 43: the listing is exhausted
EndLoop ==
    /\ pc = "loop"
    /\ listing = {}
    /\ pc' = "repack"
    /\ UNCHANGED <<input, temp_exists, tree, output, listing, filename, original_size,
                   img, total_original_size, total_compressed_size, outcome, events>>
    /\ UNCHANGED resizeVars

\* lines 100-110, then the with-block is left
Repackage ==
    /\ pc = "repack"
    /\ output' = ZipWrite(tree)
    /\ events' = Append(events, Event("zip", <<>>, <<>>))
    /\ pc' = "done"
    /\ temp_exists' = ExitTempDir("return")
    /\ UNCHANGED <<input, tree, listing, filename, original_size, img,
                   total_original_size, total_compressed_size, outcome>>
    /\ UNCHANGED resizeVars

\* line 102 raises (output path not writable)
RepackageRaises ==
    /\ pc = "repack"
    /\ pc' = "raised"
    /\ temp_exists' = ExitTempDir("raise")
    /\ UNCHANGED <<input, tree, output, listing, filename, original_size, img,
                   total_original_size, total_compressed_size, outcome, events>>
    /\ UNCHANGED resizeVars

Next ==
    \/ EnterTempDir \/ Extract \/ ExtractRaises
    \/ CopyThrough \/ CopyThroughRaises \/ StartLoop
    \/ SkipEntry \/ AcceptEntry
    \/ Open \/ OpenRaises \/ Transform \/ TransformRaises
    \/ Remove \/ Rewrite \/ RewriteRaises
    \/ Save \/ SaveRaises
    \/ EndLoop \/ Repackage \/ RepackageRaises

Spec == Init /\ [][Next]_vars

-----------------------------------------------------------------------------
(* The resize block, lines 67-72.                                          *)
(* ratio and dim * ratio are Python floats (IEEE 754 binary64).  A float   *)
(* is [m, e]: m its significant bits, most significant first, and e the    *)
(* scale, with value m * 2^(-e).                                            *)

\* significand width of a Python float
Precision == 53

Max(a, b) == IF a >= b THEN a ELSE b
Min(a, b) == IF a <= b THEN a ELSE b

\* numbers too wide for one machine integer are cut into limbs of LimbWidth bits
LimbWidth == 13
Base == 2 ^ LimbWidth
\* limbs that hold a quotient's leading zeros, its significand and a guard bit
FracLen == 5

RECURSIVE BitsToInt(_)
BitsToInt(bits) ==
    IF bits = <<>> THEN 0
    ELSE 2 * BitsToInt(SubSeq(bits, 1, Len(bits) - 1)) + bits[Len(bits)]

\* the bits of a sequence of limbs, most significant limb and bit first
LimbsToBits(limbs) ==
    [i \in 1..(LimbWidth * Len(limbs)) |->
        (limbs[((i - 1) \div LimbWidth) + 1]
            \div (2 ^ (LimbWidth - 1 - ((i - 1) % LimbWidth)))) % 2]

\* the limbs of a bit sequence of at most LimbWidth * n bits
BitsToLimbs(bits, n) ==
    LET padded == [i \in 1..(LimbWidth * n - Len(bits)) |-> 0] \o bits
    IN  [j \in 1..n |->
            BitsToInt(SubSeq(padded, LimbWidth * (j - 1) + 1, LimbWidth * j))]

\* bits without its leading zeros (bits holds a one)
StripZeros(bits) ==
    LET first == CHOOSE i \in 1..Len(bits) :
                    bits[i] = 1 /\ \A j \in 1..(i - 1) : bits[j] = 0
    IN  SubSeq(bits, first, Len(bits))

\* bits + 1
Inc(bits) ==
    IF \A i \in 1..Len(bits) : bits[i] = 1
    THEN <<1>> \o [i \in 1..Len(bits) |-> 0]
    ELSE LET last == CHOOSE i \in 1..Len(bits) :
                        bits[i] = 0 /\ \A j \in (i + 1)..Len(bits) : bits[j] = 1
         IN  [i \in 1..Len(bits) |->
                IF i < last THEN bits[i] ELSE IF i = last THEN 1 ELSE 0]

RECURSIVE FracLimbs(_, _, _)
\* the first n limbs after the binary point of rem / den (rem < den)
FracLimbs(rem, den, n) ==
    IF n = 0 THEN <<>>
    ELSE <<(rem * Base) \div den>> \o FracLimbs((rem * Base) % den, den, n - 1)

RECURSIVE FracRem(_, _, _)
\* what is left of rem / den after those n limbs
FracRem(rem, den, n) ==
    IF n = 0 THEN rem ELSE FracRem((rem * Base) % den, den, n - 1)

\* round to nearest, ties to even: keep the first p bits of bits; lower
\* tells whether anything nonzero lies below bits
RoundBits(bits, p, lower) ==
    IF Len(bits) <= p THEN [m |-> bits, drop |-> 0]
    ELSE LET kept   == SubSeq(bits, 1, p)
             guard  == bits[p + 1]
             sticky == lower \/ \E j \in (p + 2)..Len(bits) : bits[j] = 1
             up     == guard = 1 /\ (sticky \/ kept[p] = 1)
         IN  [m |-> IF up THEN Inc(kept) ELSE kept, drop |-> Len(bits) - p]

\* num / den for integers 0 < num < den: the correctly rounded quotient
TrueDiv(num, den) ==
    LET all  == LimbsToBits(FracLimbs(num, den, FracLen))
        bits == StripZeros(all)
        r    == RoundBits(bits, Precision, FracRem(num, den, FracLen) # 0)
    IN  [m |-> r.m, e |-> Len(all) - r.drop]

RECURSIVE MulLimbs(_, _, _, _)
\* limbs[1..i] * k + carry, as limbs
MulLimbs(limbs, k, i, carry) ==
    IF i = 0 THEN <<carry>>
    ELSE LET t == limbs[i] * k + carry
         IN  MulLimbs(limbs, k, i - 1, t \div Base) \o <<t % Base>>

\* dim * ratio: the exact product of the integer and the float, rounded
FMul(dim, f) ==
    LET limbs == BitsToLimbs(f.m, FracLen)
        prod  == StripZeros(LimbsToBits(MulLimbs(limbs, dim, FracLen, 0)))
        r     == RoundBits(prod, Precision, FALSE)
    IN  [m |-> r.m, e |-> f.e - r.drop]

\* int(x) for x >= 0: truncation
PyIntNearest(f) ==
    IF f.e <= 0 THEN BitsToInt(f.m)
    ELSE BitsToInt(SubSeq(f.m, 1, Len(f.m) - f.e))
         + (IF Len(f.m) >= f.e /\ f.m[Len(f.m) - f.e + 1] = 1 THEN 1 ELSE 0)
PyInt(f) ==
    IF f.e <= 0 THEN BitsToInt(f.m \o [i \in 1..(0 - f.e) |-> 0])
    ELSE BitsToInt(SubSeq(f.m, 1, Len(f.m) - f.e))

\* line 68: max(img.size) > max_dimension
ResizeNeededMin(w, h, md) == Min(w, h) > md
ResizeNeeded(w, h, md) == Max(w, h) > md

\* lines 69-70: ratio = max_dimension / max(img.size), and int(dim * ratio)
\* for both dimensions
NewSize(w, h, md) ==
    LET ratio == TrueDiv(md, Max(w, h))
    IN  <<PyInt(FMul(w, ratio)), PyInt(FMul(h, ratio))>>

InitResize ==
    /\ input = [bytes |-> "orig", files |-> EmptyTree]
    /\ temp_exists = FALSE
    /\ tree = EmptyTree
    /\ output = NoPackage
    /\ pc = "transform"
    /\ listing = {}
    /\ filename = <<>>
    /\ original_size = 0
    /\ img = NoImage
    /\ total_original_size = 0
    /\ total_compressed_size = 0
    /\ outcome = <<>>
    /\ events = <<>>
    /\ width \in 1..MaxPix
    /\ height \in 1..MaxPix
    /\ max_dimension \in 1..MaxPix
    /\ new_size = <<0, 0>>
    /\ rpc = "size_check"

\* line 68 is false: the image keeps its size
KeepSize ==
    /\ rpc = "size_check"
    /\ ~ResizeNeeded(width, height, max_dimension)
    /\ rpc' = "kept"
    /\ UNCHANGED <<width, height, max_dimension, new_size>>
    /\ UNCHANGED mainVars

\* lines 69-71: img.resize returns
Resize ==
    /\ rpc = "size_check"
    /\ ResizeNeeded(width, height, max_dimension)
    /\ LET s == NewSize(width, height, max_dimension)
       IN  /\ s[1] > 0 /\ s[2] > 0
           /\ new_size' = s
    /\ rpc' = "resized"
    /\ UNCHANGED <<width, height, max_dimension>>
    /\ UNCHANGED mainVars

\* lines 69-71: img.resize rejects a size with a 0 in it
ResizeRaises ==
    /\ rpc = "size_check"
    /\ ResizeNeeded(width, height, max_dimension)
    /\ LET s == NewSize(width, height, max_dimension)
       IN  /\ s[1] = 0 \/ s[2] = 0
           /\ new_size' = s
    /\ rpc' = "raised"
    /\ UNCHANGED <<width, height, max_dimension>>
    /\ UNCHANGED mainVars

NextResize == KeepSize \/ Resize \/ ResizeRaises

SpecResize == InitResize /\ [][NextResize]_vars

-----------------------------------------------------------------------------
(* Properties *)

\* the images the media scanner accepts in the input package
Accepted == {n \in DOMAIN input.files.media : IsImage(n)}

RECURSIVE SumOver(_, _)
\* the sum of f over the set S
SumOver(f, S) ==
    IF S = {} THEN 0
    ELSE LET x == CHOOSE y \in S : TRUE IN f[x] + SumOver(f, S \ {x})

ImageSteps == {"loop", "open", "transform", "remove", "rewrite", "save", "repack"}

\* C1 (copy-through): a run on a package without a word/media folder never
\* enters the image loop or the repackager, performs no operation but the
\* copy, and when it has returned the output file is the input package,
\* byte for byte.
C1_CopyThrough ==
    ~input.files.hasMedia =>
        /\ pc \notin ImageSteps
        /\ \A i \in 1..Len(events) : events[i].op = "copy"
        /\ pc = "done" => output = input /\ output.bytes = "orig"
        /\ pc # "done" => output = NoPackage

C1_Witness ==
    /\ ~input.files.hasMedia
    /\ pc = "done"
    /\ events = <<Event("copy", <<>>, <<>>)>>

\* every accepted image was processed and none of its steps raised
AllSucceeded == \A n \in Accepted : n \in DOMAIN outcome /\ outcome[n] = "ok"

\* C2 (rename consistency): at the end of a run in which no step raised, for
\* every accepted image whose target name differs from its name, the output
\* package holds no file of the old name and each markup file holds no
\* occurrence of the old name and, if it held the old name in the input, at
\* least one occurrence of the new name; whatever the media file names and
\* the order in which they are processed.
C2_RenameConsistency ==
    (pc = "done" /\ input.files.hasMedia /\ AllSucceeded) =>
        \A n \in Accepted :
            NewFilename(n) # n =>
                /\ n \notin DOMAIN output.files.media
                /\ ~Occurs(output.files.doc.text, n)
                /\ ~Occurs(output.files.rels.text, n)
                /\ Occurs(input.files.doc.text, n)
                     => Occurs(output.files.doc.text, NewFilename(n))
                /\ Occurs(input.files.rels.text, n)
                     => Occurs(output.files.rels.text, NewFilename(n))

\* C3 (per-image failure isolation): at the end of the run, every accepted
\* image whose decode, transform or encode step raised is in the output
\* package under its original name with its original bytes, and each markup
\* file refers to it exactly if it did in the input.
C3_FailureIsolation ==
    (pc = "done" /\ input.files.hasMedia) =>
        \A n \in Accepted :
            (n \in DOMAIN outcome /\ outcome[n] \in {"decode", "transform", "encode"}) =>
                /\ n \in DOMAIN output.files.media
                /\ output.files.media[n] = input.files.media[n]
                /\ Occurs(output.files.doc.text, n) <=> Occurs(input.files.doc.text, n)
                /\ Occurs(output.files.rels.text, n) <=> Occurs(input.files.rels.text, n)

\* C4 (size ledger): after the image loop, total_original_size is the sum of
\* the original byte sizes of the accepted images, each counted once, and
\* total_compressed_size is the sum over the same images of the compressed
\* size when processing succeeded and of the original size when it raised;
\* skipped files contribute to neither.
C4_SizeLedger ==
    pc \in {"repack", "done"} =>
        /\ DOMAIN outcome = Accepted
        /\ total_original_size =
              SumOver([n \in Accepted |-> GetSize(input.files.media[n])], Accepted)
        /\ total_compressed_size =
              SumOver([n \in Accepted |->
                          IF outcome[n] = "ok" THEN GetSize(JpegContent(n))
                          ELSE GetSize(input.files.media[n])], Accepted)

\* C5 (round-trip structure): when a run has completed, every file of the
\* input package that is not an accepted image under word/media is in the
\* output package at the same path.
C5_RoundTrip ==
    pc = "done" =>
        /\ input.files.doc.exists => output.files.doc.exists
        /\ input.files.rels.exists => output.files.rels.exists
        /\ input.files.other \subseteq output.files.other
        /\ \A n \in DOMAIN input.files.media :
              ~IsImage(n) => n \in DOMAIN output.files.media

C5_Witness ==
    /\ pc = "done"
    /\ input.files.doc.exists
    /\ \E n \in DOMAIN input.files.media : ~IsImage(n)
    /\ \E n \in DOMAIN outcome : outcome[n] = "ok" /\ NewFilename(n) # n

\* C6 (scratch directory lifetime): the scratch directory does not exist
\* before the call, exists while the call runs, and is gone once the call
\* has ended, whether by return, by the early return or by an exception.
C6_ScratchLifetime ==
    /\ pc = "start" => ~temp_exists
    /\ pc \in {"done", "raised"} => ~temp_exists
    /\ pc \notin {"start", "done", "raised"} => temp_exists

C6_Witness ==
    /\ pc = "raised"
    /\ outcome # <<>>
    /\ ~temp_exists

\* the log entries a step of the loop body leaves
OpenOf(n)      == Event("open", n, <<>>)
TransformOf(n) == Event("transform", n, <<>>)
RemoveOf(n)    == Event("remove", n, <<>>)

\* C9 (rename step ordering): a deletion is of a file whose target name
\* differs and comes right after that file was opened and transformed; a
\* reference rewrite is from the old to the new name and comes right after
\* the deletion; the write of a renamed image comes right after the rewrite
\* and finds the old file gone; the write of an image that keeps its name
\* comes right after its transform, with no deletion and no rewrite.
C9_RenameOrdering ==
    /\ \A i \in 1..Len(events) :
          LET e == events[i] IN
          /\ e.op = "remove" =>
                /\ NewFilename(e.name) # e.name
                /\ i > 2
                /\ events[i - 1] = TransformOf(e.name)
                /\ events[i - 2] = OpenOf(e.name)
          /\ e.op = "rewrite" =>
                /\ e.to = NewFilename(e.name)
                /\ i > 1
                /\ events[i - 1] = RemoveOf(e.name)
          /\ e.op = "save" =>
                /\ e.to = NewFilename(e.name)
                /\ i > 2
                /\ IF e.to # e.name
                   THEN events[i - 1] = Event("rewrite", e.name, e.to)
                   ELSE /\ events[i - 1] = TransformOf(e.name)
                        /\ events[i - 2] = OpenOf(e.name)
    /\ (pc = "save" /\ NewFilename(filename) # filename) =>
          filename \notin DOMAIN tree.media
    /\ (pc = "save" /\ NewFilename(filename) = filename) =>
          filename \in DOMAIN tree.media

C9_Witness ==
    /\ \E i \in 1..Len(events) : events[i].op = "save" /\ events[i].to # events[i].name
    /\ \E i \in 1..Len(events) : events[i].op = "save" /\ events[i].to = events[i].name

\* C10 (no target-name collision): when every accepted image was processed
\* successfully, the media folder of the output package holds as many image
\* files as were accepted.
C10_NoCollision ==
    (pc = "done" /\ input.files.hasMedia /\ AllSucceeded) =>
        Cardinality({n \in DOMAIN output.files.media : IsImage(n)})
            = Cardinality(Accepted)

\* the larger side of the image and of the size handed to img.resize
Largest == Max(width, height)
NewLargest == Max(new_size[1], new_size[2])

\* C7 (resize bound): an image whose larger dimension exceeds max_dimension
\* gets a new size whose larger dimension is max_dimension or one less and
\* whose dimensions do not exceed max_dimension; an image whose larger
\* dimension is at most max_dimension is not resized.
C7_ResizeBound ==
    /\ rpc \in {"resized", "raised"} =>
          /\ Largest > max_dimension
          /\ NewLargest <= max_dimension
          /\ NewLargest >= max_dimension - 1
          /\ new_size[1] <= max_dimension /\ new_size[2] <= max_dimension
    /\ rpc = "kept" => Largest <= max_dimension /\ new_size = <<0, 0>>

C7_Witness ==
    /\ rpc = "resized"
    /\ NewLargest = max_dimension - 1

\* the exact scaled value of dim is ScaledNum(dim) / Largest
ScaledNum(dim) == dim * max_dimension

Abs(x) == IF x >= 0 THEN x ELSE 0 - x

\* C8 (resize rounding), as stated: each new dimension is the scaled value
\* rounded to the nearest integer.
C8_RoundsToNearest ==
    rpc \in {"resized", "raised"} =>
        /\ 2 * Abs(new_size[1] * Largest - ScaledNum(width)) <= Largest
        /\ 2 * Abs(new_size[2] * Largest - ScaledNum(height)) <= Largest

\* what int() of the float product may be for dim: the floor of the exact
\* scaled value, or one less when that value is an integer
Truncated(new, dim) ==
    \/ new = ScaledNum(dim) \div Largest
    \/ /\ ScaledNum(dim) % Largest = 0
       /\ new = (ScaledNum(dim) \div Largest) - 1

\* C8 (resize rounding), amended: each new dimension is the scaled value
\* truncated toward zero, or one less than it when the scaled value is an
\* integer that the float product falls short of.
C8_Truncates ==
    rpc \in {"resized", "raised"} =>
        /\ Truncated(new_size[1], width)
        /\ Truncated(new_size[2], height)

\* a dimension whose scaled value is above 0.5 has become 0
C8_Witness ==
    /\ rpc = "raised"
    /\ \/ new_size[1] = 0 /\ 2 * ScaledNum(width) > Largest
       \/ new_size[2] = 0 /\ 2 * ScaledNum(height) > Largest

====
